---- MODULE Spec2Model ----
(***************************************************************************)
(* Model of the contract-amendment workflow: the AmendmentWorkflowState    *)
(* record (graph_state.py), the stage graph of ContractAmendmentOrchestra- *)
(* tor (orchestrator.py), the party evaluation tasks (party_node.py), the  *)
(* coordinator (coordinator_node.py) and the ConflictResolutionNode        *)
(* (conflict_resolution_node.py).                                          *)
(*                                                                         *)
(* The language-model calls are oracles: every answer the surrounding code *)
(* distinguishes is drawn nondeterministically from a small set.           *)
(***************************************************************************)
EXTENDS Naturals, Sequences, FiniteSets

\* Bounds of the model.
MaxParties == 3
MaxReviewRounds == 2

VARIABLES
    state,      \* the AmendmentWorkflowState threaded through the stages
    pc,         \* the stage the graph runs next, "party_gather" while the
                \* party tasks of a round are awaited, "END" once stopped
    inflight,   \* parties whose evaluation task is dispatched and not done
    dispatched, \* parties dispatched by the latest party-review stage
    failed_tasks, \* parties whose evaluation raised in the latest stage
    agent_registry, \* the orchestrator's party_agents: for each party id the
                \* workflow whose initiation registered its agent (owner),
                \* and the workflows whose agents evaluated for this run (used)
    updates,    \* the updates argument of the latest resume_workflow call,
                \* as a set of <<field, value>> pairs
    elapsed,    \* TRUE once the run has lasted longer than
                \* workflow_config.timeout_minutes
    resume_branch, \* what the latest resume_workflow call did: "none" before
                \* any call, "not_found" or "resumed"
    last_node   \* the stage that ran last ("none" before the first)

vars ==
    <<state, pc, inflight, dispatched, failed_tasks, agent_registry,
      resume_branch, last_node, elapsed, updates>>

END == "END"

Range(f) == {f[i] : i \in DOMAIN f}

RECURSIVE SeqRemove(_, _)
\* list.remove(x): drops the first occurrence of x
SeqRemove(seq, x) ==
    IF seq = <<>> THEN <<>>
    ELSE IF Head(seq) = x THEN Tail(seq)
    ELSE <<Head(seq)>> \o SeqRemove(Tail(seq), x)

InSeq(x, seq) == \E i \in DOMAIN seq : seq[i] = x

\* s.f := v
Set(s, f, v) == [s EXCEPT ![f] = v]

(***************************************************************************)
(* graph_state.py                                                          *)
(***************************************************************************)

\* The values PartyResponse.status takes in the code.
ResponseStatuses ==
    {"approved", "rejected", "requested_changes", "pending",
     "pending_re_review", "error"}

\* PartyResponse: proposed_changes is "none" (None), "mods" (a counter-
\* proposal with proposed_modifications naming clauses) or "raw" (a truthy
\* counter-proposal without them); risk is the overall_risk_level of the
\* risk assessment, "none" when absent.
PartyResponse(status, changes, risk) ==
    [status |-> status, proposed_changes |-> changes, risk |-> risk]

\* ConflictInfo; a new one has resolution_status "unresolved".
ConflictInfo(id, type, parties, clauses, severity) ==
    [conflict_id |-> id, conflict_type |-> type, affected_parties |-> parties,
     affected_clauses |-> clauses, severity |-> severity,
     resolution_status |-> "unresolved"]

update_status(s, new_status) == Set(s, "status", new_status)

add_party_response_approval_unrecorded(s, party_id, response) ==
    Set(s, "party_responses",
        [p \in DOMAIN s.party_responses \cup {party_id} |->
            IF p = party_id THEN response ELSE s.party_responses[p]])

add_party_response_replaces_map(s, party_id, response) ==
    Set(s, "party_responses", [p \in {party_id} |-> response])

add_party_response(s, party_id, response) ==
    LET s1 == Set(s, "party_responses",
                  [p \in DOMAIN s.party_responses \cup {party_id} |->
                      IF p = party_id THEN response ELSE s.party_responses[p]])
    IN  IF response.status = "approved"
        THEN IF ~InSeq(party_id, s.received_approvals)
             THEN Set(s1, "received_approvals", Append(s.received_approvals, party_id))
             ELSE s1
        ELSE IF InSeq(party_id, s.received_approvals)
             THEN Set(s1, "received_approvals", SeqRemove(s.received_approvals, party_id))
             ELSE s1

add_conflict_not_activated(s, conflict) ==
    Set(s, "conflicts", Append(s.conflicts, conflict))

add_conflict(s, conflict) ==
    LET s1 == Set(s, "conflicts", Append(s.conflicts, conflict))
    IN  IF ~InSeq(conflict.conflict_id, s.active_conflicts)
        THEN Set(s1, "active_conflicts",
                 Append(s.active_conflicts, conflict.conflict_id))
        ELSE s1

\* The lowest index of conflicts holding conflict_id, 0 when there is none.
conflict_index(s, conflict_id) ==
    IF \E i \in DOMAIN s.conflicts : s.conflicts[i].conflict_id = conflict_id
    THEN CHOOSE i \in DOMAIN s.conflicts :
            /\ s.conflicts[i].conflict_id = conflict_id
            /\ \A j \in 1..(i - 1) : s.conflicts[j].conflict_id # conflict_id
    ELSE 0

resolve_conflict_appends_again(s, conflict_id) ==
    LET i == conflict_index(s, conflict_id)
    IN  IF i = 0 THEN s
        ELSE LET s1 == [s EXCEPT !.conflicts[i].resolution_status = "resolved"]
                 s2 == IF InSeq(conflict_id, s1.active_conflicts)
                       THEN Set(s1, "active_conflicts",
                                SeqRemove(s1.active_conflicts, conflict_id))
                       ELSE s1
             IN  Set(s2, "resolved_conflicts",
                     Append(s2.resolved_conflicts, conflict_id))

resolve_conflict_keeps_active(s, conflict_id) ==
    LET i == conflict_index(s, conflict_id)
    IN  IF i = 0 THEN s
        ELSE LET s1 == [s EXCEPT !.conflicts[i].resolution_status = "resolved"]
             IN  IF ~InSeq(conflict_id, s1.resolved_conflicts)
                 THEN Set(s1, "resolved_conflicts",
                          Append(s1.resolved_conflicts, conflict_id))
                 ELSE s1

resolve_conflict(s, conflict_id) ==
    LET i == conflict_index(s, conflict_id)
    IN  IF i = 0 THEN s
        ELSE LET s1 == [s EXCEPT !.conflicts[i].resolution_status = "resolved"]
                 s2 == IF InSeq(conflict_id, s1.active_conflicts)
                       THEN Set(s1, "active_conflicts",
                                SeqRemove(s1.active_conflicts, conflict_id))
                       ELSE s1
             IN  IF ~InSeq(conflict_id, s2.resolved_conflicts)
                 THEN Set(s2, "resolved_conflicts",
                          Append(s2.resolved_conflicts, conflict_id))
                 ELSE s2

get_pending_parties(s) ==
    SelectSeq(s.parties,
              LAMBDA party : \/ party \notin DOMAIN s.party_responses
                             \/ s.party_responses[party].status = "pending")

RECURSIVE consensus_loop(_, _)
\* the for loop of is_consensus_reached, from the i-th party on
consensus_loop(s, i) ==
    IF i > Len(s.parties) THEN TRUE
    ELSE IF s.parties[i] \notin DOMAIN s.party_responses THEN FALSE
    ELSE IF s.party_responses[s.parties[i]].status \notin {"approved"} THEN FALSE
    ELSE consensus_loop(s, i + 1)

is_consensus_reached_no_empty_check(s) == consensus_loop(s, 1)

is_consensus_reached(s) ==
    IF Len(s.parties) = 0 THEN FALSE ELSE consensus_loop(s, 1)

has_active_conflicts(s) == Len(s.active_conflicts) > 0

\* log_execution appends one record to execution_history; the model keeps
\* the name of the logging node.
log_execution(s, node_name) ==
    Set(s, "execution_history", Append(s.execution_history, node_name))

\* errors.append({"node": node, "error": message})
append_error(s, node, message) ==
    Set(s, "errors", Append(s.errors, [node |-> node, error |-> message]))

\* A fresh conflict_id (uuid4): one no conflict of this workflow has had.
fresh_id(s) == s.uuid_counter + 1

(***************************************************************************)
(* nodes/party_node.py                                                     *)
(***************************************************************************)

\* What one evaluation (_evaluate_amendment_proposal) can produce, as far as
\* the code tells the answers apart: it raises, or it returns a
\* recommendation with counter-proposals (only _make_recommendation's
\* "requested_changes" branch sets them), the risk assessment's
\* overall_risk_level and whether the contract analysis lists unfavorable
\* changes.
Evaluation(rec, cp, risk, unfav) ==
    [raises |-> FALSE, recommendation |-> rec, counter_proposals |-> cp,
     risk |-> risk, unfavorable |-> unfav]

EvalOutcomes ==
    { Evaluation("approved", "none", "low", FALSE),
      Evaluation("rejected", "none", "high", TRUE),
      Evaluation("requested_changes", "mods", "none", FALSE),
      [raises |-> TRUE, recommendation |-> "none", counter_proposals |-> "none",
       risk |-> "none", unfavorable |-> FALSE] }

\* severity_map.get(level, "medium"); an absent level defaults to "medium"
severity_of(level) ==
    IF level \in {"high", "medium", "low"} THEN level ELSE "medium"

_identify_and_add_conflicts(s, party_id, ev) ==
    IF ev.recommendation \in {"rejected", "requested_changes"}
    THEN LET conflict ==
                 ConflictInfo(
                     fresh_id(s),
                     IF ev.recommendation = "rejected"
                     THEN "unacceptable_terms" ELSE "counter_proposal",
                     <<party_id>>,
                     IF ev.unfavorable THEN "unfavorable_changes" ELSE "general",
                     severity_of(ev.risk))
         IN  add_conflict(Set(s, "uuid_counter", fresh_id(s)), conflict)
    ELSE s

PartyAgentNode_call_uncaught(s, party_id, ev) ==
    IF /\ party_id \in DOMAIN s.party_responses
       /\ s.party_responses[party_id].status # "pending"
    THEN s
    ELSE IF ev.raises
    THEN s
    ELSE log_execution(
             _identify_and_add_conflicts(
                 add_party_response(s, party_id,
                     PartyResponse(ev.recommendation, ev.counter_proposals, ev.risk)),
                 party_id, ev),
             "party_agent")

\* PartyAgentNode.__call__ from its last suspension point on: the evaluation
\* has returned ev (or raised) and the rest runs without yielding.
PartyAgentNode_call(s, party_id, ev) ==
    IF /\ party_id \in DOMAIN s.party_responses
       /\ s.party_responses[party_id].status # "pending"
    THEN s
    ELSE IF ev.raises
    THEN log_execution(
             add_party_response(s, party_id, PartyResponse("error", "none", "none")),
             "party_agent")
    ELSE log_execution(
             _identify_and_add_conflicts(
                 add_party_response(s, party_id,
                     PartyResponse(ev.recommendation, ev.counter_proposals, ev.risk)),
                 party_id, ev),
             "party_agent")

(***************************************************************************)
(* nodes/coordinator_node.py                                               *)
(***************************************************************************)

\* Messages of the exceptions a language-model call can raise: one that the
\* retry policy's keywords match and one that they do not.
ExceptionMessages == {"Connection timeout", "Invalid response"}

\* What the coordinator's collaborators can do during one call: the contract
\* analysis call raises or not, and the conflict-detection tool raises,
\* reports no conflict or reports one.
CoordinatorOracle ==
    [analysis_raises : BOOLEAN, tool : {"none", "one", "raises"},
     message : ExceptionMessages]

\* Responses that carry a truthy proposed_changes.
parties_with_changes(s) ==
    {p \in DOMAIN s.party_responses : s.party_responses[p].proposed_changes # "none"}

\* _has_conflicts: [raised, state, result]
_has_conflicts(s, o) ==
    IF Cardinality(DOMAIN s.party_responses) < 2
    THEN [raised |-> FALSE, state |-> s, result |-> FALSE]
    ELSE IF Cardinality(parties_with_changes(s)) < 2
    THEN [raised |-> FALSE, state |-> s, result |-> FALSE]
    ELSE IF o.tool = "raises"
    THEN [raised |-> TRUE, state |-> s, result |-> FALSE]
    ELSE LET s1 == IF o.tool = "one"
                   THEN add_conflict(
                            Set(s, "uuid_counter", fresh_id(s)),
                            ConflictInfo(fresh_id(s), "contradictory_terms",
                                SelectSeq(s.parties,
                                    LAMBDA p : p \in parties_with_changes(s)),
                                "tool_clauses", "medium"))
                   ELSE s
         IN  [raised |-> FALSE, state |-> s1, result |-> Len(s1.conflicts) > 0]

\* Each handler returns [raised, state].
_handle_initiation(s, o) ==
    IF Len(s.parties) = 0 THEN [raised |-> FALSE, state |-> s]
    ELSE IF s.proposed_changes = "empty" THEN [raised |-> FALSE, state |-> s]
    ELSE IF s.original_contract /\ o.analysis_raises
    THEN [raised |-> TRUE, state |-> s]
    ELSE [raised |-> FALSE,
          state |-> update_status(Set(s, "required_approvals", s.parties),
                                  "parties_notified")]

_handle_party_notification(s) ==
    [raised |-> FALSE, state |-> update_status(s, "under_review")]

_handle_review_coordination(s, o) ==
    LET h == _has_conflicts(s, o)
    IN  IF h.raised THEN [raised |-> TRUE, state |-> h.state]
        ELSE IF h.result
        THEN [raised |-> FALSE, state |-> update_status(h.state, "conflicts_detected")]
        ELSE IF is_consensus_reached(h.state)
        THEN [raised |-> FALSE, state |-> update_status(h.state, "consensus_building")]
        ELSE [raised |-> FALSE, state |-> h.state]

_handle_conflict_coordination(s) ==
    IF \E i \in DOMAIN s.conflicts :
           /\ s.conflicts[i].severity = "high"
           /\ s.conflicts[i].resolution_status = "unresolved"
    THEN [raised |-> FALSE, state |-> s]
    ELSE IF ~has_active_conflicts(s)
    THEN [raised |-> FALSE, state |-> update_status(s, "consensus_building")]
    ELSE [raised |-> FALSE, state |-> s]

_handle_consensus_coordination(s) ==
    IF is_consensus_reached(s) /\ ~has_active_conflicts(s)
    THEN [raised |-> FALSE, state |-> update_status(s, "legal_review")]
    ELSE [raised |-> FALSE, state |-> s]

_handle_default_coordination(s) == [raised |-> FALSE, state |-> s]

\* CoordinatorNode.__call__: dispatch on the status, log the execution; an
\* exception of a handler is caught, appended to errors and logged.
CoordinatorNode_call(s, o) ==
    LET r == CASE s.status = "initiated" -> _handle_initiation(s, o)
               [] s.status = "parties_notified" -> _handle_party_notification(s)
               [] s.status = "under_review" -> _handle_review_coordination(s, o)
               [] s.status = "conflicts_detected" -> _handle_conflict_coordination(s)
               [] s.status = "consensus_building" -> _handle_consensus_coordination(s)
               [] OTHER -> _handle_default_coordination(s)
    IN  IF r.raised
        THEN log_execution(append_error(r.state, "coordinator", o.message),
                           "coordinator")
        ELSE log_execution(r.state, "coordinator")

(***************************************************************************)
(* nodes/conflict_resolution_node.py                                       *)
(***************************************************************************)

\* The parties named by any conflict, resolved or not.
existing_conflict_parties(s) ==
    UNION {Range(s.conflicts[i].affected_parties) : i \in DOMAIN s.conflicts}

\* The conflict _identify_conflicts builds for one response.
detected_conflict(s, party_id) ==
    LET response == s.party_responses[party_id]
    IN  ConflictInfo(
            fresh_id(s),
            IF response.status = "rejected"
            THEN "unacceptable_terms" ELSE "counter_proposal",
            <<party_id>>,
            IF response.proposed_changes = "mods"
            THEN "proposed_modifications" ELSE "general",
            severity_of(response.risk))

RECURSIVE identify_loop(_, _, _)
\* The loop of _identify_conflicts over party_responses.items(), taken in the
\* order of the party ids, from party k on; existing is the set computed
\* before the loop.
identify_loop(s, existing, k) ==
    IF k > Len(s.parties) THEN s
    ELSE IF k \notin DOMAIN s.party_responses \/ k \in existing
    THEN identify_loop(s, existing, k + 1)
    ELSE IF s.party_responses[k].status \in {"rejected", "requested_changes"}
    THEN identify_loop(
             add_conflict(Set(s, "uuid_counter", fresh_id(s)),
                          detected_conflict(s, k)),
             existing, k + 1)
    ELSE identify_loop(s, existing, k + 1)

_identify_conflicts_no_skip(s) == identify_loop(s, {}, 1)

_identify_conflicts(s) == identify_loop(s, existing_conflict_parties(s), 1)

\* What mediation and validation of one conflict can yield: a resolution
\* accepted by validation that requires party approval or does not, one that
\* validation rejects, a resolution that is no JSON, or a call that raises.
ResolutionAnswers ==
    {"accepted_needs_approval", "accepted", "rejected", "unparsed", "raises"}

_apply_resolution(s, i, requires_party_approval) ==
    IF requires_party_approval
    THEN Set(s, "party_responses",
             [p \in DOMAIN s.party_responses |->
                 IF InSeq(p, s.conflicts[i].affected_parties)
                 THEN [s.party_responses[p] EXCEPT !.status = "pending_re_review"]
                 ELSE s.party_responses[p]])
    ELSE s

_resolve_conflict_applies_first(s, i, answer) ==
    CASE answer = "raises" ->
             [raised |-> TRUE, state |-> s, status |-> "none"]
      [] answer = "unparsed" ->
             [raised |-> FALSE, state |-> s, status |-> "resolution_error"]
      [] answer = "rejected" ->
             [raised |-> FALSE, state |-> _apply_resolution(s, i, TRUE),
              status |-> "resolution_failed"]
      [] OTHER ->
             [raised |-> FALSE,
              state |-> _apply_resolution(s, i, answer = "accepted_needs_approval"),
              status |-> "resolved"]

\* _resolve_conflict: [raised, state, status]
_resolve_conflict(s, i, answer) ==
    CASE answer = "raises" ->
             [raised |-> TRUE, state |-> s, status |-> "none"]
      [] answer = "unparsed" ->
             [raised |-> FALSE, state |-> s, status |-> "resolution_error"]
      [] answer = "rejected" ->
             [raised |-> FALSE, state |-> s, status |-> "resolution_failed"]
      [] OTHER ->
             [raised |-> FALSE,
              state |-> _apply_resolution(s, i, answer = "accepted_needs_approval"),
              status |-> "resolved"]

RECURSIVE resolution_loop(_, _, _)
\* The loop of __call__ over the copy ids of active_conflicts: [raised, state]
resolution_loop(s, ids, answers) ==
    IF ids = <<>> THEN [raised |-> FALSE, state |-> s]
    ELSE LET conflict_id == Head(ids)
             i == conflict_index(s, conflict_id)
         IN  IF i = 0 THEN resolution_loop(s, Tail(ids), answers)
             ELSE LET r == _resolve_conflict(s, i, answers[conflict_id])
                  IN  IF r.raised THEN [raised |-> TRUE, state |-> r.state]
                      ELSE IF r.status = "resolved"
                      THEN resolution_loop(resolve_conflict(r.state, conflict_id),
                                           Tail(ids), answers)
                      ELSE resolution_loop(r.state, Tail(ids), answers)

\* ConflictResolutionNode.__call__; o is what the language model does during
\* the call: the analysis raises or not, and one answer per active conflict.
ConflictResolutionNode_call(s, o) ==
    LET s1 == _identify_conflicts(s)
    IN  IF s1.active_conflicts = <<>> THEN s1
        ELSE IF o.analysis_raises
        THEN log_execution(append_error(s1, "conflict_resolution", o.message),
                           "conflict_resolution")
        ELSE LET r == resolution_loop(s1, s1.active_conflicts, o.answers)
             IN  IF r.raised
                 THEN log_execution(
                          append_error(r.state, "conflict_resolution", o.message),
                          "conflict_resolution")
                 ELSE log_execution(r.state, "conflict_resolution")

(***************************************************************************)
(* orchestrator.py: the stage functions                                    *)
(***************************************************************************)

\* initiate_amendment registers one PartyAgentNode per party before the run.
party_agents(s) == Range(s.parties)

\* The tail of _party_review_node: the status update after the fan-in.
party_review_update_status(s) ==
    IF Cardinality(DOMAIN s.party_responses) = Len(s.parties)
    THEN IF has_active_conflicts(s) THEN update_status(s, "conflicts_detected")
         ELSE IF is_consensus_reached(s) THEN update_status(s, "consensus_building")
         ELSE update_status(s, "under_review")
    ELSE s

round_limit_exceeded_off_by_one(s) ==
    s.review_rounds > s.workflow_config.max_review_rounds + 1

\* review_rounds > max_rounds, read after the increment
round_limit_exceeded(s) ==
    s.review_rounds > s.workflow_config.max_review_rounds

party_review_fail_status_only(s) == update_status(s, "failed")

party_review_fail_error_only(s) ==
    append_error(s, "party_review", "Maximum review rounds exceeded.")

\* The round-limit branch of _party_review_node.
party_review_fail(s) ==
    update_status(
        append_error(s, "party_review", "Maximum review rounds exceeded."),
        "failed")

\* What the mediator's answer can be in _conflict_resolution_node: JSON of a
\* non-empty proposal, JSON of an empty one, no JSON at all, or the call
\* raises.
MediatorAnswers == {"proposal", "empty", "invalid", "raises"}

_conflict_resolution_node(s, answer) ==
    update_status(
        CASE answer = "proposal" ->
                 [s EXCEPT !.node_outputs.consensus_proposal = "mediated"]
          [] answer = "empty" ->
                 [s EXCEPT !.node_outputs.consensus_proposal = "empty"]
          [] OTHER ->
                 append_error(s, "conflict_resolution",
                              "Failed to parse new changes from LLM."),
        "consensus_building")

_consensus_building_node_keeps_approvals(s) ==
    IF s.node_outputs.consensus_proposal = "mediated"
    THEN update_status(
             [s EXCEPT
                 !.proposed_changes = "mediated",
                 !.party_responses =
                     [p \in DOMAIN s.party_responses |->
                         IF InSeq(p, s.parties)
                         THEN [s.party_responses[p] EXCEPT !.status = "pending"]
                         ELSE s.party_responses[p]],
                 !.active_conflicts = <<>>,
                 !.conflicts = <<>>],
             "under_review")
    ELSE append_error(s, "consensus_building",
                      "No consensus proposal found to apply.")

_consensus_building_node(s) ==
    IF s.node_outputs.consensus_proposal = "mediated"
    THEN update_status(
             [s EXCEPT
                 !.proposed_changes = "mediated",
                 !.party_responses =
                     [p \in DOMAIN s.party_responses |->
                         IF InSeq(p, s.parties)
                         THEN [s.party_responses[p] EXCEPT !.status = "pending"]
                         ELSE s.party_responses[p]],
                 !.received_approvals = <<>>,
                 !.active_conflicts = <<>>,
                 !.conflicts = <<>>],
             "under_review")
    ELSE append_error(s, "consensus_building",
                      "No consensus proposal found to apply.")

\* The approved responses that carry changes, collected by
\* _version_control_node.
approved_changes(s) ==
    {p \in DOMAIN s.party_responses :
        /\ s.party_responses[p].status = "approved"
        /\ s.party_responses[p].proposed_changes # "none"}

\* What the merge tool can return: a merged text, an empty text, or it
\* raises.
MergeAnswers == {"doc", "empty", "raises"}

_version_control_node(s, merged) ==
    update_status(
        IF approved_changes(s) # {}
        THEN [s EXCEPT !.document_versions = @ + 1, !.final_document = merged]
        ELSE s,
        "final_approval")

_final_approval_node(s) ==
    IF /\ is_consensus_reached(s)
       /\ ~has_active_conflicts(s)
       /\ s.legal_review_status = "approved"
       /\ s.final_document = "doc"
    THEN update_status(s, "approved")
    ELSE update_status(s, "under_review")

_completion_node(s) == update_status(s, "completed")

_error_handler_node_status_kept(s) == s

_error_handler_node(s) == update_status(s, "failed")

_party_notified_node_status_kept(s) == s

_party_notified_node(s) == update_status(s, "under_review")

(***************************************************************************)
(* orchestrator.py: the routing functions                                  *)
(***************************************************************************)

_route_from_coordinator(s) ==
    CASE s.status = "parties_notified" -> "party_notified"
      [] s.status = "under_review" -> "party_review"
      [] s.status = "conflicts_detected" -> "conflict_resolution"
      [] s.status = "legal_review" -> "legal_review"
      [] s.status = "consensus_building" -> "version_control"
      [] s.status = "final_approval" -> "final_approval"
      [] s.status \in {"approved", "completed"} -> "completion"
      [] OTHER -> IF s.errors # <<>> THEN "error" ELSE "party_review"

_route_from_party_notified(s) ==
    IF s.status = "under_review" THEN "party_review"
    ELSE IF s.errors # <<>> THEN "error"
    ELSE "coordinator"

_route_from_party_review_consensus_unchecked(s) ==
    IF has_active_conflicts(s) THEN "conflict_resolution" ELSE "version_control"

_route_from_party_review(s) ==
    IF has_active_conflicts(s) THEN "conflict_resolution"
    ELSE IF is_consensus_reached(s) THEN "version_control"
    ELSE IF get_pending_parties(s) # <<>> THEN END
    ELSE IF s.errors # <<>> THEN "error"
    ELSE "coordinator"

_route_from_conflict_resolution(s) ==
    IF s.errors # <<>> THEN "error"
    ELSE IF s.status = "consensus_building" THEN "consensus_building"
    ELSE "coordinator"

_route_from_version_control(s) ==
    IF s.final_document \in {"doc"} /\ is_consensus_reached(s) THEN "final_approval"
    ELSE IF s.errors # <<>> THEN "error"
    ELSE "coordinator"

\* The edge maps of _build_workflow: the label "error" names error_handler.
edge_unmapped(label) == label

edge(label) == IF label = "error" THEN "error_handler" ELSE label

(***************************************************************************)
(* The run of one workflow: initiate_amendment builds the initial state    *)
(* and streams the graph from its entry point, the coordinator.            *)
(***************************************************************************)

\* The party ids are 1..n, in the order given to initiate_amendment.
PartyLists == {[i \in 1..n |-> i] : n \in 0..MaxParties}

\* workflow_config is the default dict of AmendmentWorkflowState updated with
\* the overrides given: an entry is the set holding the value of its key,
\* empty when the dict has no such key (max_retries is not among the
\* defaults); auto_approve_threshold is in percent.  compliance_checks is
\* the compliance_status it holds, "none" for the empty dict.
InitialState(parties, changes, contract, max_rounds, legal) ==
    [status |-> "initiated",
     review_rounds |-> 0,
     parties |-> parties,
     party_responses |-> <<>>,
     required_approvals |-> <<>>,
     received_approvals |-> <<>>,
     original_contract |-> contract,
     proposed_changes |-> changes,
     final_document |-> "none",
     conflicts |-> <<>>,
     active_conflicts |-> <<>>,
     resolved_conflicts |-> <<>>,
     document_versions |-> 0,
     legal_review_status |-> "pending",
     node_outputs |-> [consensus_proposal |-> "none"],
     execution_history |-> <<>>,
     errors |-> <<>>,
     retry_count |-> 0,
     compliance_checks |-> "none",
     workflow_config |-> [max_review_rounds |-> max_rounds,
                          require_legal_review |-> legal,
                          auto_approve_threshold |-> {80},
                          max_retries |-> {}],
     uuid_counter |-> 0]

\* The registration loop of initiate_amendment for this workflow, numbered
\* 1: one agent per party, built from this workflow's policies.
Registered(parties) == [owner |-> [p \in Range(parties) |-> 1], used |-> {}]

Init ==
    /\ \E parties \in PartyLists, changes \in {"empty", "original"},
          contract \in BOOLEAN, max_rounds \in 0..MaxReviewRounds,
          legal \in BOOLEAN :
          state = InitialState(parties, changes, contract, max_rounds, legal)
    /\ pc = "coordinator"
    /\ inflight = {}
    /\ dispatched = {}
    /\ failed_tasks = {}
    /\ agent_registry = Registered(state.parties)
    /\ resume_branch = "none"
    /\ elapsed = FALSE
    /\ updates = {}
    /\ last_node = "none"

\* initiate_amendment given a contract text and the default
\* require_legal_review.
InitDefaults ==
    /\ Init
    /\ state.original_contract
    /\ state.workflow_config.require_legal_review

\* No party task is touched by a stage other than party review.
NoTasks ==
    UNCHANGED <<inflight, dispatched, failed_tasks, agent_registry,
                resume_branch, elapsed, updates>>

Coordinator ==
    /\ pc = "coordinator"
    /\ \E o \in CoordinatorOracle : state' = CoordinatorNode_call(state, o)
    /\ pc' = edge(_route_from_coordinator(state'))
    /\ last_node' = "coordinator"
    /\ NoTasks

PartyNotified ==
    /\ pc = "party_notified"
    /\ state' = _party_notified_node(state)
    /\ pc' = edge(_route_from_party_notified(state'))
    /\ last_node' = "party_notified"
    /\ NoTasks

\* _party_review_node up to the gather: the round counter, the round limit
\* and the dispatch of one task per pending party.  With nothing to
\* dispatch the stage runs to its end at once.
PartyReviewStage ==
    /\ last_node' = "party_review"
    /\ failed_tasks' = {}
    /\ UNCHANGED <<agent_registry, resume_branch, elapsed, updates>>
    /\ LET s1 == [state EXCEPT !.review_rounds = @ + 1]
           tasks == Range(get_pending_parties(s1)) \cap party_agents(s1)
       IN  IF round_limit_exceeded(s1)
           THEN /\ state' = party_review_fail(s1)
                /\ inflight' = {}
                /\ dispatched' = {}
                /\ pc' = edge(_route_from_party_review(state'))
           ELSE IF tasks # {}
           THEN /\ state' = s1
                /\ inflight' = tasks
                /\ dispatched' = tasks
                /\ pc' = "party_gather"
           ELSE /\ state' = party_review_update_status(s1)
                /\ inflight' = {}
                /\ dispatched' = {}
                /\ pc' = edge(_route_from_party_review(state'))

PartyReview ==
    /\ pc = "party_review"
    /\ PartyReviewStage

\* One dispatched party task completes; the tasks of a round complete in
\* any order.
PartyTask ==
    /\ pc = "party_gather"
    /\ \E party_id \in inflight, ev \in EvalOutcomes :
          /\ state' = PartyAgentNode_call(state, party_id, ev)
          /\ inflight' = inflight \ {party_id}
          /\ failed_tasks' = IF ev.raises THEN failed_tasks \cup {party_id}
                             ELSE failed_tasks
          /\ agent_registry' =
                [agent_registry EXCEPT
                    !.used = @ \cup {agent_registry.owner[party_id]}]
    /\ UNCHANGED <<pc, dispatched, resume_branch, elapsed, updates, last_node>>

\* asyncio.gather has returned: the rest of _party_review_node.
PartyGather ==
    /\ pc = "party_gather"
    /\ inflight = {}
    /\ state' = party_review_update_status(state)
    /\ pc' = edge(_route_from_party_review(state'))
    /\ UNCHANGED <<inflight, dispatched, failed_tasks, agent_registry,
                   resume_branch, elapsed, updates, last_node>>

\* An exception of the mediator call leaves the stage function and the run.
ConflictResolution ==
    /\ pc = "conflict_resolution"
    /\ last_node' = "conflict_resolution"
    /\ \E answer \in MediatorAnswers :
          IF answer = "raises"
          THEN /\ state' = state
               /\ pc' = "ABORTED"
          ELSE /\ state' = _conflict_resolution_node(state, answer)
               /\ pc' = edge(_route_from_conflict_resolution(state'))
    /\ NoTasks

ConsensusBuilding ==
    /\ pc = "consensus_building"
    /\ state' = _consensus_building_node(state)
    /\ pc' = "party_review"
    /\ last_node' = "consensus_building"
    /\ NoTasks

VersionControl ==
    /\ pc = "version_control"
    /\ last_node' = "version_control"
    /\ \E merged \in MergeAnswers :
          IF approved_changes(state) # {} /\ merged = "raises"
          THEN /\ state' = state
               /\ pc' = "ABORTED"
          ELSE /\ state' = _version_control_node(state, merged)
               /\ pc' = edge(_route_from_version_control(state'))
    /\ NoTasks

FinalApproval ==
    /\ pc = "final_approval"
    /\ state' = _final_approval_node(state)
    /\ pc' = "completion"
    /\ last_node' = "final_approval"
    /\ NoTasks

Completion ==
    /\ pc = "completion"
    /\ state' = _completion_node(state)
    /\ pc' = END
    /\ last_node' = "completion"
    /\ NoTasks

ErrorHandler ==
    /\ pc = "error_handler"
    /\ state' = _error_handler_node(state)
    /\ pc' = END
    /\ last_node' = "error_handler"
    /\ NoTasks

Next ==
    \/ Coordinator
    \/ PartyNotified
    \/ PartyReview
    \/ PartyTask
    \/ PartyGather
    \/ ConflictResolution
    \/ ConsensusBuilding
    \/ VersionControl
    \/ FinalApproval
    \/ Completion
    \/ ErrorHandler

Spec == Init /\ [][Next]_vars

\* The stages every state of a run names.
TypeOK ==
    /\ pc \in {"coordinator", "party_notified", "party_review", "party_gather",
               "conflict_resolution", "consensus_building", "version_control",
               "final_approval", "completion", "error_handler", END, "ABORTED"}
    /\ inflight \subseteq dispatched

(***************************************************************************)
(* The conflict lifecycle by itself.  ConflictResolutionNode is not wired  *)
(* into the compiled graph, so its operations are driven directly: on a    *)
(* workflow state whose responses were recorded with add_party_response,   *)
(* the detection pass, the whole node, the orchestrator's mediation and    *)
(* consensus-building stages and party-review rounds run in any order.     *)
(***************************************************************************)

\* Caps of the harness on what its repeated operations let grow: the error
\* log, the execution history and the conflict ids handed out.
MaxErrors == 1
MaxHistory == 2
MaxIds == 2

\* The largest party list the harness starts from.
MaxManagerParties == 2

\* The harness may start an operation that logs or creates conflicts.
Room ==
    /\ Len(state.errors) < MaxErrors
    /\ Len(state.execution_history) < MaxHistory
    /\ state.uuid_counter < MaxIds

\* The responses recorded before the harness starts.
RecordedResponses ==
    { PartyResponse("approved", "none", "low"),
      PartyResponse("rejected", "none", "high"),
      PartyResponse("requested_changes", "mods", "none") }

RECURSIVE record_responses(_, _, _)
\* add_party_response for every party of rs, from party k on
record_responses(s, rs, k) ==
    IF k > Len(s.parties) THEN s
    ELSE IF k \in DOMAIN rs
    THEN record_responses(add_party_response(s, k, rs[k]), rs, k + 1)
    ELSE record_responses(s, rs, k + 1)

InitManager ==
    /\ \E parties \in {l \in PartyLists : Len(l) <= MaxManagerParties} :
          \E responders \in SUBSET Range(parties) :
             \E rs \in [responders -> RecordedResponses] :
                state = record_responses(
                            InitialState(parties, "original", TRUE, MaxReviewRounds, TRUE),
                            rs, 1)
    /\ pc = "conflict_resolution"
    /\ inflight = {}
    /\ dispatched = {}
    /\ failed_tasks = {}
    /\ agent_registry = Registered(state.parties)
    /\ resume_branch = "none"
    /\ elapsed = FALSE
    /\ updates = {}
    /\ last_node = "none"

\* No party-review round is under way.
Idle == pc # "party_gather"

ManagerOracle(s) ==
    [analysis_raises : BOOLEAN, message : {"Connection timeout"},
     answers : [Range(_identify_conflicts(s).active_conflicts) -> ResolutionAnswers]]

\* ConflictResolutionNode._identify_conflicts, run by itself.
ManagerDetect ==
    /\ Idle
    /\ Room
    /\ state' = _identify_conflicts(state)
    /\ last_node' = IF last_node \in {"identify", "identify_again"}
                    THEN "identify_again" ELSE "identify"
    /\ UNCHANGED <<pc, inflight, dispatched, failed_tasks, agent_registry,
                   resume_branch, elapsed, updates>>

\* ConflictResolutionNode.__call__
ManagerCall ==
    /\ Idle
    /\ Room
    /\ \E o \in ManagerOracle(state) : state' = ConflictResolutionNode_call(state, o)
    /\ last_node' = "conflict_manager"
    /\ UNCHANGED <<pc, inflight, dispatched, failed_tasks, agent_registry,
                   resume_branch, elapsed, updates>>

\* _conflict_resolution_node, when the mediator call returns
ManagerMediate ==
    /\ Idle
    /\ Room
    /\ \E answer \in MediatorAnswers \ {"raises"} :
          state' = _conflict_resolution_node(state, answer)
    /\ last_node' = "conflict_resolution"
    /\ UNCHANGED <<pc, inflight, dispatched, failed_tasks, agent_registry,
                   resume_branch, elapsed, updates>>

\* _consensus_building_node
ManagerConsensus ==
    /\ Idle
    /\ Room
    /\ state' = _consensus_building_node(state)
    /\ last_node' = "consensus_building"
    /\ UNCHANGED <<pc, inflight, dispatched, failed_tasks, agent_registry,
                   resume_branch, elapsed, updates>>

\* _party_review_node, while the round limit has not yet failed the workflow
ManagerReview ==
    /\ Idle
    /\ Room
    /\ ~round_limit_exceeded(state)
    /\ PartyReviewStage

NextManager ==
    \/ ManagerDetect
    \/ ManagerCall
    \/ ManagerMediate
    \/ ManagerConsensus
    \/ ManagerReview
    \/ PartyTask
    \/ PartyGather

SpecManager == InitManager /\ [][NextManager]_vars

(***************************************************************************)
(* Properties of the review rounds                                         *)
(***************************************************************************)

max_review_rounds == state.workflow_config.max_review_rounds

\* The entry into the party-review stage that takes the round counter above
\* the configured maximum.
ExceedingEntry ==
    /\ pc = "party_review"
    /\ state'.review_rounds > max_review_rounds
    /\ state' # state

\* C1: review_rounds never decreases and never exceeds max_review_rounds + 1;
\* every entry into the party-review stage counts one round, nothing else
\* counts one, so the stage is entered at most max_review_rounds + 1 times,
\* and the entry that takes the counter to max_review_rounds + 1 leaves the
\* status failed.
C1_ReviewRoundsBounded ==
    /\ [](state.review_rounds <= max_review_rounds + 1)
    /\ [][/\ state'.review_rounds >= state.review_rounds
          /\ state'.workflow_config = state.workflow_config
          /\ (pc = "party_review" /\ state' # state
                 => state'.review_rounds = state.review_rounds + 1)
          /\ (pc # "party_review"
                 => state'.review_rounds = state.review_rounds)
          /\ (ExceedingEntry => state'.status = "failed")]_vars

\* A run with a maximum of at least one round has entered party review
\* max_review_rounds + 1 times and the last entry failed the workflow.
C1_Witness ==
    /\ max_review_rounds >= 1
    /\ state.review_rounds = max_review_rounds + 1
    /\ last_node = "party_review"
    /\ state.status = "failed"

MaxRoundsError ==
    [node |-> "party_review", error |-> "Maximum review rounds exceeded."]

C3_ConsensusIffAllApproved ==
    is_consensus_reached(state) <=>
        /\ Len(state.parties) > 0
        /\ \A i \in 1..Len(state.parties) :
              /\ state.parties[i] \in DOMAIN state.party_responses
              /\ state.party_responses[state.parties[i]].status = "approved"

\* Two parties, one approved and one sent back for re-review by a
\* resolution: no consensus.
C3_Witness ==
    /\ Len(state.parties) = 2
    /\ DOMAIN state.party_responses = {1, 2}
    /\ state.party_responses[1].status = "approved"
    /\ state.party_responses[2].status = "pending_re_review"
    /\ ~is_consensus_reached(state)

\* How often x occurs in seq.
Occurrences(seq, x) == Cardinality({i \in DOMAIN seq : seq[i] = x})

\* C4: the id of every conflict in conflicts occurs exactly once in
\* active_conflicts and resolved_conflicts taken together: in one of them,
\* never in both, never twice.
C4_ConflictInExactlyOneList ==
    \A i \in DOMAIN state.conflicts :
        Occurrences(state.active_conflicts, state.conflicts[i].conflict_id)
          + Occurrences(state.resolved_conflicts, state.conflicts[i].conflict_id)
          = 1

\* One conflict has been resolved while another is still active.
C4_Witness ==
    \E i, j \in DOMAIN state.conflicts :
        /\ InSeq(state.conflicts[i].conflict_id, state.resolved_conflicts)
        /\ state.conflicts[i].resolution_status = "resolved"
        /\ InSeq(state.conflicts[j].conflict_id, state.active_conflicts)

\* C5: when the tasks of a party-review round have all returned, every
\* dispatched party has a response: an error response if its evaluation
\* raised, its own decision otherwise; no task touches the response of
\* another party, and the stage runs its closing status update.
C5_RaisingPartyIsolated ==
    /\ [][pc = "party_gather" /\ pc' # "party_gather" =>
            /\ \A p \in dispatched :
                  /\ p \in DOMAIN state'.party_responses
                  /\ p \in failed_tasks
                        => state'.party_responses[p].status = "error"
                  /\ p \notin failed_tasks
                        => state'.party_responses[p].status
                              \in {"approved", "rejected", "requested_changes"}
            /\ state' = party_review_update_status(state)]_vars
    /\ [][pc = "party_gather" /\ inflight' # inflight =>
            /\ pc' = "party_gather"
            /\ \A q \in DOMAIN state.party_responses \ (inflight \ inflight') :
                  /\ q \in DOMAIN state'.party_responses
                  /\ state'.party_responses[q] = state.party_responses[q]]_vars

\* A round of three parties has ended in which exactly one evaluation
\* raised.
C5_Witness ==
    /\ pc # "party_gather"
    /\ last_node = "party_review"
    /\ Cardinality(dispatched) = 3
    /\ Cardinality(failed_tasks) = 1
    /\ \A p \in dispatched :
          /\ p \in DOMAIN state.party_responses
          /\ (state.party_responses[p].status = "error") <=> (p \in failed_tasks)

\* C6: a detection pass that follows a detection pass directly adds no
\* conflict; on every state, detecting twice gives what detecting once
\* gives.
C6_DetectionIdempotent ==
    /\ [](_identify_conflicts(_identify_conflicts(state))
            = _identify_conflicts(state))
    /\ [][(last_node \in {"identify", "identify_again"}
             /\ last_node' = "identify_again")
            => (/\ state'.conflicts = state.conflicts
                /\ state'.active_conflicts = state.active_conflicts)]_vars

\* A second pass has run right after a pass, and detection had created a
\* conflict from a request for changes.
C6_Witness ==
    /\ last_node = "identify_again"
    /\ \E i \in DOMAIN state.conflicts :
          /\ state.conflicts[i].affected_clauses = "proposed_modifications"
          /\ InSeq(state.conflicts[i].conflict_id, state.active_conflicts)

(***************************************************************************)
(* Properties of the routing of a run                                      *)
(***************************************************************************)

\* Two parties have both approved in the first review round.
BothApprovedFirstRound ==
    /\ Len(state.parties) = 2
    /\ state.review_rounds = 1
    /\ \A p \in Range(state.parties) :
          /\ p \in DOMAIN state.party_responses
          /\ state.party_responses[p].status = "approved"

\* C7: with two parties that both approved in the first round, the stage
\* after version_control is final_approval, the one after that completion,
\* and the run ends with status completed.
C7_ApprovedRunsStraightToCompletion ==
    /\ [](BothApprovedFirstRound /\ last_node = "party_review"
            => pc \in {"party_gather", "version_control"})
    /\ [][BothApprovedFirstRound /\ pc = "version_control"
            => pc' \in {"version_control", "final_approval"}]_vars
    /\ [][BothApprovedFirstRound /\ pc = "final_approval"
            => pc' \in {"final_approval", "completion"}]_vars
    /\ [](BothApprovedFirstRound /\ pc = END => state.status = "completed")

\* The party-review stage has just run to its end.
PartyReviewDone == last_node = "party_review" /\ pc # "party_gather"

\* The parties whose recorded response has the given status.
Responded(status) ==
    {p \in DOMAIN state.party_responses :
        state.party_responses[p].status = status}

\* Of three parties one has rejected and two have approved.
OneRejectsTwoApprove ==
    /\ Len(state.parties) = 3
    /\ DOMAIN state.party_responses = Range(state.parties)
    /\ Cardinality(Responded("rejected")) = 1
    /\ Cardinality(Responded("approved")) = 2

\* C8: when a party-review stage ends with one of three parties having
\* rejected and the other two approved, conflicts holds exactly one
\* conflict, its affected parties are exactly the rejecting party, and the
\* next stage is conflict_resolution.
C8_OneRejectionOneConflict ==
    PartyReviewDone /\ OneRejectsTwoApprove =>
        /\ Len(state.conflicts) = 1
        /\ Range(state.conflicts[1].affected_parties) = Responded("rejected")
        /\ Len(state.conflicts[1].affected_parties) = 1
        /\ pc = "conflict_resolution"

\* Such a stage has ended in the first round.
C8_Witness ==
    /\ PartyReviewDone
    /\ OneRejectsTwoApprove
    /\ state.review_rounds = 1
    /\ Len(state.conflicts) = 1
    /\ pc = "conflict_resolution"

\* Every party has answered and none is plainly pending: a party-review
\* round has nobody to ask but the parties sent back for re-review.
OnlyReReviewOutstanding ==
    /\ DOMAIN state.party_responses = Range(state.parties)
    /\ Responded("pending") = {}
    /\ Responded("pending_re_review") # {}
    /\ state.review_rounds < max_review_rounds

\* C9: after a resolution that requires re-approval has set the affected
\* parties to pending_re_review, the party-review round that follows
\* dispatches exactly those parties.
C9_ReReviewDispatched ==
    [][(OnlyReReviewOutstanding /\ Idle /\ last_node' = "party_review"
          /\ last_node = "conflict_manager")
        => dispatched' = Responded("pending_re_review")]_vars

\* The resolution has run: a conflict is resolved and out of
\* active_conflicts, and its affected party awaits re-review.
C9_Scenario ==
    /\ last_node = "conflict_manager"
    /\ OnlyReReviewOutstanding
    /\ \E i \in DOMAIN state.conflicts :
          /\ state.conflicts[i].resolution_status = "resolved"
          /\ ~InSeq(state.conflicts[i].conflict_id, state.active_conflicts)
          /\ Range(state.conflicts[i].affected_parties)
                \subseteq Responded("pending_re_review")

SpecLive == InitDefaults /\ [][Next]_vars /\ WF_vars(Next)

\* The run is over: the graph reached END, or an exception left a stage
\* function and with it the run.
RunOver == pc \in {END, "ABORTED"}

Done == state.status \in {"completed", "approved"}

\* C12: whenever the status is completed or approved, every party has a
\* response, consensus is reached and no conflict is active.
C12_DoneMeansConsensus ==
    Done =>
        /\ Range(state.parties) \subseteq DOMAIN state.party_responses
        /\ is_consensus_reached(state)
        /\ ~has_active_conflicts(state)

\* A workflow of three parties has completed.
C12_Witness ==
    /\ state.status = "completed"
    /\ Len(state.parties) = 3
    /\ pc = END

\* C13: whenever the status is completed or approved, final_document has
\* been set.
C13_DoneHasFinalDocument == Done => state.final_document # "none"

\* A run has completed through version control.
C13_Scenario ==
    /\ state.status = "completed"
    /\ InSeq("coordinator", state.execution_history)
    /\ is_consensus_reached(state)
    /\ state.document_versions = 0

\* C14: with require_legal_review set, the status is completed or approved
\* only when legal_review_status is approved.
C14_DoneMeansLegalApproved ==
    state.workflow_config.require_legal_review /\ Done
        => state.legal_review_status = "approved"

\* A workflow that requires legal review has completed.
C14_Scenario ==
    /\ state.workflow_config.require_legal_review
    /\ state.status = "completed"
    /\ state.legal_review_status = "pending"
    /\ pc = END

\* C15: whenever the status is failed, the errors log is not empty.
C15_FailedHasCause == state.status = "failed" => state.errors # <<>>

\* The error handler has failed a workflow whose errors name a cause other
\* than the round limit.
C15_Witness ==
    /\ state.status = "failed"
    /\ last_node = "error_handler"
    /\ state.errors # <<>>
    /\ ~InSeq(MaxRoundsError, state.errors)

\* The default of AmendmentWorkflowState.max_retries.
max_retries == 3

\* The latest entry of errors is a transient one.
TransientErrorLogged ==
    /\ state.errors # <<>>
    /\ state.errors[Len(state.errors)].error = "Connection timeout"

\* C16: when the error-handling stage runs with a transient error logged
\* and retry_count below max_retries, retry_count is incremented and the
\* coordinator runs next.
C16_TransientErrorRetried ==
    [][(pc = "error_handler" /\ TransientErrorLogged
          /\ state.retry_count < max_retries /\ pc' # pc)
        => (/\ state'.retry_count = state.retry_count + 1
            /\ pc' = "coordinator")]_vars

\* A run has ended failed after a transient error without any retry.
C16_Scenario ==
    /\ pc = END
    /\ last_node = "error_handler"
    /\ TransientErrorLogged
    /\ state.status = "failed"
    /\ state.retry_count = 0

\* The workflow has no party or no proposed change.
EmptyInput == Len(state.parties) = 0 \/ state.proposed_changes = "empty"

\* C17: a workflow with an empty party list or empty proposed changes never
\* enters the party-review stage and dispatches no party evaluation.
C17_EmptyInputNeverReviewed ==
    EmptyInput =>
        /\ pc \notin {"party_review", "party_gather"}
        /\ state.review_rounds = 0
        /\ dispatched = {}

\* Parties have been asked to evaluate an empty set of changes, and no
\* error has been recorded.
C17_Scenario ==
    /\ state.proposed_changes = "empty"
    /\ pc = "party_gather"
    /\ dispatched # {}
    /\ state.errors = <<>>
    /\ state.status = "initiated"

\* C18: completed and failed are terminal: no stage changes a status that
\* is completed or failed.
C18_TerminalStatusKept ==
    [][state.status \in {"completed", "failed"}
         => state'.status = state.status]_vars

\* The conflict-resolution stage has run on a workflow that the round limit
\* had failed.
C18_Scenario ==
    /\ last_node = "conflict_resolution"
    /\ InSeq(MaxRoundsError, state.errors)
    /\ state.status = "consensus_building"

(***************************************************************************)
(* Two workflows on the one orchestrator.  The module-level orchestrator   *)
(* keeps a single party_agents dict keyed by party id; a second            *)
(* initiate_amendment runs its registration loop whenever the first        *)
(* workflow is suspended at an await.                                      *)
(***************************************************************************)

\* The registration loop of a second initiate_amendment, workflow 2, naming
\* the parties others.
InitiateOther ==
    /\ ~RunOver
    /\ 2 \notin Range(agent_registry.owner)
    /\ \E others \in PartyLists \ {<<>>} :
          agent_registry' =
              [agent_registry EXCEPT
                  !.owner = [p \in DOMAIN agent_registry.owner \cup Range(others) |->
                                IF p \in Range(others) THEN 2
                                ELSE agent_registry.owner[p]]]
    /\ UNCHANGED <<state, pc, inflight, dispatched, failed_tasks,
                   resume_branch, elapsed, updates,
                   last_node>>

NextInstances == Next \/ InitiateOther

SpecInstances == InitDefaults /\ [][NextInstances]_vars

\* C19: a second workflow never changes the party evaluator of the first:
\* the agent registered for each party of the first workflow stays the one
\* the first workflow registered, and only such agents evaluate for it.
C19_InstancesIndependent ==
    /\ \A p \in Range(state.parties) : agent_registry.owner[p] = 1
    /\ agent_registry.used \subseteq {1}

\* A party of the first workflow has been evaluated by the agent that the
\* second workflow registered.
C19_Scenario ==
    /\ 2 \in agent_registry.used
    /\ DOMAIN state.party_responses # {}

(***************************************************************************)
(* resume_workflow.  The compiled graph checkpoints the state after every  *)
(* stage under the workflow id; a stage that raises leaves the checkpoint  *)
(* taken before it, with that stage as the one to run next.               *)
(***************************************************************************)

resume_next_entry(next, last) == "coordinator"

\* The stage astream(None, config) runs first: the one the last checkpoint
\* names as next, none once the graph has reached END.
resume_next(next, last) == IF next = "ABORTED" THEN last ELSE next

\* resume_workflow on a workflow id without a checkpoint: get_state gives no
\* values and the call returns False.
ResumeUnknown ==
    /\ resume_branch # "not_found"
    /\ resume_branch' = "not_found"
    /\ UNCHANGED <<state, pc, inflight, dispatched, failed_tasks,
                   agent_registry, last_node, elapsed, updates>>

\* resume_workflow on this workflow once its run is over: the stream
\* continues from the last checkpoint.
Resume ==
    /\ RunOver
    /\ resume_branch' = "resumed"
    /\ pc' = resume_next(pc, last_node)
    /\ UNCHANGED <<state, inflight, dispatched, failed_tasks, agent_registry,
                   last_node, elapsed, updates>>

NextResume == Next \/ ResumeUnknown \/ Resume

SpecResume == InitDefaults /\ [][NextResume]_vars

RoundEndedWithFailure ==
    /\ last_node = "party_review"
    /\ pc # "party_gather"
    /\ failed_tasks # {}

\* C21: once a party-review round in which a party's evaluation raised has
\* passed its fan-in, the errors log holds an entry: the failure has been
\* appended to errors, next to the party's error response.
C21_RaisingPartyLogged == RoundEndedWithFailure => state.errors # <<>>

\* A round has ended in which an evaluation raised: the party has its error
\* response and the errors log is empty.
C21_Scenario ==
    /\ RoundEndedWithFailure
    /\ \A p \in failed_tasks :
          /\ p \in DOMAIN state.party_responses
          /\ state.party_responses[p].status = "error"
    /\ state.errors = <<>>

\* C22: while a party evaluation of the round stays in flight, no conflict
\* is appended to conflicts and review_rounds is not incremented.
C22_NothingBeforeFanIn ==
    [][inflight # {} /\ inflight' # {}
         => /\ state'.conflicts = state.conflicts
            /\ state'.review_rounds = state.review_rounds]_vars

\* A party of the round has rejected and its conflict is in conflicts while
\* another evaluation of the same round is still in flight.
C22_Scenario ==
    /\ pc = "party_gather"
    /\ inflight # {}
    /\ \E p \in dispatched \ inflight :
          /\ p \in DOMAIN state.party_responses
          /\ state.party_responses[p].status = "rejected"
          /\ \E i \in DOMAIN state.conflicts :
                /\ state.conflicts[i].affected_parties = <<p>>
                /\ InSeq(state.conflicts[i].conflict_id, state.active_conflicts)

(***************************************************************************)
(* One party-review round by itself, on a workflow in which some parties   *)
(* have a recorded response and the others have none: the stage            *)
(* dispatches, the tasks complete in any order, the gather returns.        *)
(***************************************************************************)

InitReviewRound ==
    /\ \E parties \in PartyLists :
          \E responders \in SUBSET Range(parties) :
             \E rs \in [responders -> RecordedResponses] :
                state = update_status(
                            record_responses(
                                InitialState(parties, "original", TRUE,
                                             MaxReviewRounds, TRUE),
                                rs, 1),
                            "under_review")
    /\ pc = "party_review"
    /\ inflight = {}
    /\ dispatched = {}
    /\ failed_tasks = {}
    /\ agent_registry = Registered(state.parties)
    /\ resume_branch = "none"
    /\ elapsed = FALSE
    /\ updates = {}
    /\ last_node = "none"

NextReviewRound ==
    \/ state.review_rounds = 0 /\ PartyReview
    \/ PartyTask
    \/ PartyGather

SpecReviewRound == InitReviewRound /\ [][NextReviewRound]_vars

\* C23: every step of the fan-out is the write of one dispatched party: the
\* task that completes leaves a decided or error response under its own
\* party id, and every other entry of party_responses is what it was; a
\* party that was not dispatched has a response that is not pending and
\* keeps it through the round, in whatever order the tasks complete.
C23_OwnEntryOnly ==
    /\ [][pc = "party_gather" =>
            LET done == inflight \ inflight'
            IN  /\ Cardinality(done) <= 1
                /\ \A p \in done :
                      /\ p \in DOMAIN state'.party_responses
                      /\ state'.party_responses[p].status
                            \in {"approved", "rejected", "requested_changes",
                                 "error"}
                      /\ p \in DOMAIN state.party_responses
                            => state.party_responses[p].status = "pending"
                /\ DOMAIN state'.party_responses
                      = DOMAIN state.party_responses \cup done
                /\ \A q \in DOMAIN state.party_responses \ done :
                      state'.party_responses[q] = state.party_responses[q]]_vars
    /\ [](pc = "party_gather" =>
            \A q \in Range(state.parties) \ dispatched :
                /\ q \in DOMAIN state.party_responses
                /\ state.party_responses[q].status # "pending")

\* Of three parties one had rejected before the round and was not
\* dispatched; of the two dispatched the later one has answered and the
\* earlier one is still in flight; the rejection stands.
C23_Witness ==
    /\ pc = "party_gather"
    /\ Len(state.parties) = 3
    /\ dispatched = {1, 3}
    /\ inflight = {1}
    /\ DOMAIN state.party_responses = {2, 3}
    /\ state.party_responses[2].status = "rejected"
    /\ state.party_responses[3].status = "requested_changes"

\* The parties of s without a response whose status is a decision.
Undecided(s) ==
    {p \in Range(s.parties) :
        \/ p \notin DOMAIN s.party_responses
        \/ s.party_responses[p].status
              \notin {"approved", "rejected", "requested_changes"}}

\* C24: a party-review stage within the round limit dispatches exactly the
\* parties without an approved, rejected or requested_changes response:
\* those with no response and those whose response is pending,
\* pending_re_review or error.
C24_UndecidedDispatched ==
    [][(pc = "party_review" /\ state' # state /\ ~round_limit_exceeded(state'))
         => dispatched' = Undecided(state)]_vars

\* A second round within the limit has run on a workflow in which a party
\* has an error response, and has dispatched nobody.
C24_Scenario ==
    /\ last_node = "party_review"
    /\ state.review_rounds = 2
    /\ ~round_limit_exceeded(state)
    /\ Responded("error") # {}
    /\ Responded("error") \subseteq Range(state.parties)
    /\ dispatched = {}

(***************************************************************************)
(* Properties of the conflict history                                      *)
(***************************************************************************)

\* C30: conflicts is append-only: every step leaves the conflicts it found
\* in place, under their ids and in their order, and at most appends to
\* them.
C30_ConflictsAppendOnly ==
    [][/\ Len(state'.conflicts) >= Len(state.conflicts)
       /\ \A i \in DOMAIN state.conflicts :
             state'.conflicts[i].conflict_id = state.conflicts[i].conflict_id]_vars

\* The consensus-building stage has applied a mediated proposal to a
\* workflow in which a party had rejected: no conflict is left on record.
C30_Scenario ==
    /\ last_node = "consensus_building"
    /\ state.proposed_changes = "mediated"
    /\ state.uuid_counter > 0
    /\ state.conflicts = <<>>

(***************************************************************************)
(* conditions/__init__.py: the routing conditions and the decision         *)
(* function get_next_node_from_state.                                      *)
(*                                                                         *)
(* The texts the conditions search are known by what they contain:         *)
(* proposed_changes is "empty" ({}), "original" or "mediated" (one change, *)
(* none of the searched words), "complex" (three changes, none of the      *)
(* words), "liability" (one change that mentions liability) or "payment"   *)
(* (one change that mentions a payment); the counter-proposals of the      *)
(* responses mention none of the words.                                    *)
(***************************************************************************)

\* dict.get(key, default) on an entry of workflow_config
config_get(entry, default) ==
    IF entry = {} THEN default ELSE CHOOSE v \in entry : TRUE

\* len(state.proposed_changes)
changes_count(changes) ==
    CASE changes = "empty" -> 0
      [] changes = "complex" -> 3
      [] OTHER -> 1

\* The entries of the keyword lists that occur in the lower-cased text.
Mentions(text) ==
    CASE text = "Connection timeout" -> {"timeout", "connection"}
      [] text = "liability" -> {"liability"}
      [] text = "payment" -> {"payment"}
      [] OTHER -> {}

should_route_to_parties(s) ==
    IF s.status = "initiated" THEN TRUE
    ELSE IF s.status = "parties_notified"
    THEN Cardinality(DOMAIN s.party_responses) < Len(s.parties)
    ELSE IF s.status = "conflict_resolution" /\ Len(s.active_conflicts) = 0
    THEN TRUE
    ELSE IF get_pending_parties(s) # <<>> /\ s.status = "under_review"
    THEN TRUE
    ELSE FALSE

\* The types of the conflicts _detect_response_conflicts lists.
_detect_response_conflicts(s) ==
    LET approve_count ==
            Cardinality({p \in DOMAIN s.party_responses :
                            s.party_responses[p].status = "approved"})
        reject_count ==
            Cardinality({p \in DOMAIN s.party_responses :
                            s.party_responses[p].status = "rejected"})
    IN  (IF approve_count > 0 /\ reject_count > 0
         THEN {"status_conflict"} ELSE {})
        \cup
        (IF Cardinality(parties_with_changes(s)) > 1
         THEN {"proposed_changes_conflict"} ELSE {})

should_route_to_conflict_resolution(s) ==
    IF Len(s.active_conflicts) > 0 THEN TRUE
    ELSE IF s.status = "conflicts_detected" THEN TRUE
    ELSE IF /\ Cardinality(DOMAIN s.party_responses) >= 2
            /\ _detect_response_conflicts(s) # {}
    THEN TRUE
    ELSE IF s.status = "legal_review" /\ s.compliance_checks = "non_compliant"
    THEN TRUE
    ELSE FALSE

_contains_significant_financial_changes(s) ==
    Mentions(s.proposed_changes)
        \cap {"$", "dollar", "payment", "budget", "cost", "fee", "price"} # {}

_requires_legal_review_by_content(s) ==
    IF Mentions(s.proposed_changes)
           \cap {"liability", "indemnification", "termination",
                 "intellectual property", "confidentiality", "non-compete",
                 "arbitration", "governing law", "force majeure", "warranty",
                 "damages"} # {}
    THEN TRUE
    ELSE IF _contains_significant_financial_changes(s) THEN TRUE
    ELSE FALSE

should_route_to_legal_review(s) ==
    IF /\ s.workflow_config.require_legal_review
       /\ is_consensus_reached(s)
       /\ Len(s.active_conflicts) = 0
    THEN TRUE
    ELSE IF _requires_legal_review_by_content(s) /\ is_consensus_reached(s)
    THEN TRUE
    ELSE IF /\ Len(s.parties) >= 3
            /\ changes_count(s.proposed_changes) >= 3
            /\ is_consensus_reached(s)
    THEN TRUE
    ELSE IF s.status = "legal_review" THEN TRUE
    ELSE FALSE

\* _get_approved_changes: the parties whose approved response carries changes
_get_approved_changes(s) ==
    {p \in DOMAIN s.party_responses :
        /\ s.party_responses[p].status = "approved"
        /\ s.party_responses[p].proposed_changes # "none"}

should_route_to_version_control(s) ==
    IF ~(is_consensus_reached(s) /\ Len(s.active_conflicts) = 0) THEN FALSE
    ELSE IF /\ s.workflow_config.require_legal_review
            /\ s.legal_review_status # "approved"
    THEN FALSE
    ELSE IF _get_approved_changes(s) = {} THEN FALSE
    ELSE IF s.status = "consensus_building" THEN TRUE
    ELSE IF s.status = "legal_review" /\ s.legal_review_status = "approved"
    THEN TRUE
    ELSE FALSE

\* approval_rate >= auto_approve_threshold, with the threshold in percent
_meets_auto_completion_criteria(s) ==
    LET auto_approve_threshold ==
            config_get(s.workflow_config.auto_approve_threshold, 100)
        total_parties == Len(s.parties)
        approved_parties ==
            Cardinality({p \in DOMAIN s.party_responses :
                            s.party_responses[p].status = "approved"})
    IN  IF auto_approve_threshold < 100
        THEN IF total_parties > 0
             THEN approved_parties * 100 >= auto_approve_threshold * total_parties
             ELSE 0 >= auto_approve_threshold
        ELSE FALSE

\* final_document is "none" (None), "empty" (an empty text) or "doc".
should_complete_workflow(s) ==
    IF s.final_document \notin {"doc"} THEN FALSE
    ELSE IF ~is_consensus_reached(s) THEN FALSE
    ELSE IF Len(s.active_conflicts) > 0 THEN FALSE
    ELSE IF /\ s.workflow_config.require_legal_review
            /\ s.legal_review_status # "approved"
    THEN FALSE
    ELSE IF s.status \in {"final_approval", "approved"} THEN TRUE
    ELSE IF _meets_auto_completion_criteria(s) THEN TRUE
    ELSE FALSE

_is_recoverable_error(error) ==
    Mentions(error.error)
        \cap {"timeout", "connection reset", "rate limit exceeded",
              "temporary unavailable", "service unavailable",
              "network error", "connection error", "retry"} # {}

\* The default of workflow_config.get("max_retries", 3).
default_max_retries == 3

\* state.errors[-3:]
recent_errors(s) ==
    IF Len(s.errors) >= 3
    THEN SubSeq(s.errors, Len(s.errors) - 2, Len(s.errors))
    ELSE s.errors

should_retry_workflow_unlimited(s) ==
    IF s.errors = <<>> THEN FALSE
    ELSE LET recent == recent_errors(s)
             recoverable_errors ==
                 Cardinality({i \in DOMAIN recent : _is_recoverable_error(recent[i])})
         IN  IF 2 * recoverable_errors > Len(recent) THEN TRUE
             ELSE IF s.status = "failed"
             THEN Mentions(s.errors[Len(s.errors)].error)
                      \cap {"timeout", "connection", "rate limit", "temporary",
                            "unavailable", "retry", "network"} # {}
             ELSE FALSE

should_retry_workflow(s) ==
    IF s.retry_count >= config_get(s.workflow_config.max_retries, default_max_retries)
    THEN FALSE
    ELSE IF s.errors = <<>> THEN FALSE
    ELSE LET recent == recent_errors(s)
             recoverable_errors ==
                 Cardinality({i \in DOMAIN recent : _is_recoverable_error(recent[i])})
         IN  IF 2 * recoverable_errors > Len(recent) THEN TRUE
             ELSE IF s.status = "failed"
             THEN Mentions(s.errors[Len(s.errors)].error)
                      \cap {"timeout", "connection", "rate limit", "temporary",
                            "unavailable", "retry", "network"} # {}
             ELSE FALSE

should_route_back_to_coordinator(s) ==
    \/ /\ 0 < Cardinality(DOMAIN s.party_responses)
       /\ Cardinality(DOMAIN s.party_responses) < Len(s.parties)
       /\ s.status = "under_review"
    \/ /\ Len(s.conflicts) > Len(s.active_conflicts)
       /\ Len(s.active_conflicts) > 0
    \/ /\ s.legal_review_status \notin {"approved", "rejected"}
       /\ s.status = "legal_review"

get_next_node_from_state(s) ==
    IF s.errors # <<>> /\ should_retry_workflow(s) THEN "error_handler"
    ELSE IF should_complete_workflow(s) THEN "completion"
    ELSE IF should_route_to_conflict_resolution(s) THEN "conflict_resolution"
    ELSE IF should_route_to_legal_review(s) THEN "legal_review"
    ELSE IF should_route_to_version_control(s) THEN "version_control"
    ELSE IF should_route_to_parties(s) THEN "party_review"
    ELSE IF should_route_back_to_coordinator(s) THEN "coordinator"
    ELSE "coordinator"

(***************************************************************************)
(* The decision function by itself: get_next_node_from_state is applied    *)
(* once to a workflow state drawn from the states below.                   *)
(***************************************************************************)

\* Bounds of the states the decision function is applied to.
MaxRoutingParties == 2
MaxRetryCount == 4
MaxErrorLog == 3

\* The values of AmendmentStatus.
AmendmentStatuses ==
    {"initiated", "parties_notified", "under_review", "conflicts_detected",
     "conflict_resolution", "consensus_building", "legal_review",
     "final_approval", "approved", "rejected", "completed", "failed"}

\* The error logs of up to MaxErrorLog entries.
ErrorLogs ==
    UNION {[1..n -> {[node |-> "coordinator", error |-> m] : m \in ExceptionMessages}] :
              n \in 0..MaxErrorLog}

\* The responses of the states drawn: the recorded ones, an approval that
\* carries changes, and one reset to pending by consensus building.
RoutingResponses ==
    RecordedResponses
        \cup {PartyResponse("approved", "mods", "low"),
              PartyResponse("pending", "none", "none")}

\* A workflow state with the given responses recorded, one conflict among
\* its parties added if conflict is set, and the given fields assigned.
RoutingState(parties, rs, changes, conflict, f) ==
    LET s0 == record_responses(
                  InitialState(parties, changes, TRUE, MaxReviewRounds,
                               f.require_legal_review),
                  rs, 1)
        s1 == IF conflict
              THEN add_conflict(
                       Set(s0, "uuid_counter", fresh_id(s0)),
                       ConflictInfo(fresh_id(s0), "contradictory_terms",
                                    parties, "general", "medium"))
              ELSE s0
    IN  [s1 EXCEPT
            !.status = f.status,
            !.final_document = f.final_document,
            !.legal_review_status = f.legal_review_status,
            !.compliance_checks = f.compliance_checks,
            !.errors = f.errors,
            !.retry_count = f.retry_count,
            !.workflow_config.auto_approve_threshold = f.auto_approve_threshold,
            !.workflow_config.max_retries = f.max_retries]

\* States that differ in what the retry rule reads.
RetryFields ==
    [status : AmendmentStatuses,
     final_document : {"none"},
     legal_review_status : {"pending"},
     compliance_checks : {"none"},
     errors : ErrorLogs,
     retry_count : 0..MaxRetryCount,
     auto_approve_threshold : {{80}},
     max_retries : {{}, {1}},
     require_legal_review : {TRUE}]

\* States that differ in what the other rules read.
DecisionFields ==
    [status : AmendmentStatuses,
     final_document : {"none", "doc"},
     legal_review_status : {"pending", "approved"},
     compliance_checks : {"none", "non_compliant"},
     errors : {e \in ErrorLogs : Len(e) = 0 \/ e = <<[node |-> "coordinator", error |-> "Invalid response"]>>},
     retry_count : {0},
     auto_approve_threshold : {{}, {80}, {100}},
     max_retries : {{}},
     require_legal_review : BOOLEAN]

InitRouting ==
    /\ \/ \E f \in RetryFields : state = RoutingState(<<1>>, <<>>, "original", FALSE, f)
       \/ \E parties \in {l \in PartyLists : Len(l) <= MaxRoutingParties} :
             \E responders \in SUBSET Range(parties) :
                \E rs \in [responders -> RoutingResponses] :
                   \E changes \in {"original", "complex", "liability", "payment"},
                      conflict \in BOOLEAN, f \in DecisionFields :
                      state = RoutingState(parties, rs, changes, conflict, f)
    /\ pc = "routing"
    /\ inflight = {}
    /\ dispatched = {}
    /\ failed_tasks = {}
    /\ agent_registry = Registered(state.parties)
    /\ resume_branch = "none"
    /\ elapsed = FALSE
    /\ updates = {}
    /\ last_node = "none"

\* The routing engine computes the next stage.
Decide ==
    /\ pc = "routing"
    /\ pc' = get_next_node_from_state(state)
    /\ UNCHANGED <<state, inflight, dispatched, failed_tasks, agent_registry,
                   resume_branch, elapsed, updates, last_node>>

NextRouting == Decide

SpecRouting == InitRouting /\ [][NextRouting]_vars

\* The decision has been taken: pc is the stage it names.
Decided == pc # "routing"

\* The retry rule of the decision function applies.
RetryApplies(s) == s.errors # <<>> /\ should_retry_workflow(s)

\* C25: in every state with retry_count >= max_retries (the max_retries of
\* workflow_config, 3 without one), should_retry_workflow is false and the
\* decision is not error_handler, whatever the errors and the status.
C25_RetryRefusedAtLimit ==
    state.retry_count
        >= config_get(state.workflow_config.max_retries, default_max_retries)
      => /\ ~should_retry_workflow(state)
         /\ pc # "error_handler"

\* The decision has been taken on a failed workflow whose three logged
\* errors are all transient and whose retry_count is the default limit.
C25_Witness ==
    /\ Decided
    /\ state.workflow_config.max_retries = {}
    /\ state.retry_count = default_max_retries
    /\ state.status = "failed"
    /\ Len(state.errors) = 3
    /\ \A i \in DOMAIN state.errors : _is_recoverable_error(state.errors[i])

\* The latest entry of errors matches none of the transient keywords.
LatestErrorFatal(s) ==
    /\ s.errors # <<>>
    /\ Mentions(s.errors[Len(s.errors)].error) = {}

\* C26: when the latest logged error is fatal, should_retry_workflow is
\* false and the decision is not error_handler, whatever the earlier
\* entries of errors are.
C26_FatalErrorNotRetried ==
    LatestErrorFatal(state)
      => /\ ~should_retry_workflow(state)
         /\ pc # "error_handler"

\* The decision on a log of two transient errors followed by a fatal one
\* has been taken: error_handler, for a retry.
C26_Scenario ==
    /\ pc = "error_handler"
    /\ LatestErrorFatal(state)
    /\ Len(state.errors) = 3
    /\ state.retry_count = 0

\* Legal review is approved if the configuration requires it.
LegalReviewSatisfied(s) ==
    s.workflow_config.require_legal_review => s.legal_review_status = "approved"

\* The completion criteria: a final document, consensus, no active
\* conflict, legal review satisfied.
CompletionCriteria(s) ==
    /\ s.final_document = "doc"
    /\ is_consensus_reached(s)
    /\ s.active_conflicts = <<>>
    /\ LegalReviewSatisfied(s)

\* C27: in every state in which the retry rule does not apply and the
\* completion criteria hold, the decision is completion, whatever the
\* status and the auto_approve_threshold.
C27_CompletionWhenCriteriaMet ==
    Decided /\ ~RetryApplies(state) /\ CompletionCriteria(state)
        => pc = "completion"

\* The decision has been taken on a state under review that meets the
\* completion criteria, with an auto_approve_threshold of 100 percent and
\* no error logged: it is not completion.
C27_Scenario ==
    /\ Decided
    /\ state.errors = <<>>
    /\ CompletionCriteria(state)
    /\ state.status = "under_review"
    /\ state.workflow_config.auto_approve_threshold = {100}
    /\ pc # "completion"

\* C28: in every state in which none of the rules for retry, completion,
\* conflict resolution and legal review applies, and consensus is reached,
\* no conflict is active, legal review is satisfied and there are approved
\* changes, the decision is version_control, whatever the status.
C28_VersionControlWhenReady ==
    (/\ Decided
     /\ ~RetryApplies(state)
     /\ ~should_complete_workflow(state)
     /\ ~should_route_to_conflict_resolution(state)
     /\ ~should_route_to_legal_review(state)
     /\ is_consensus_reached(state)
     /\ state.active_conflicts = <<>>
     /\ LegalReviewSatisfied(state)
     /\ _get_approved_changes(state) # {})
        => pc = "version_control"

\* The decision has been taken on such a state whose status is
\* under_review: it is the coordinator.
C28_Scenario ==
    /\ Decided
    /\ state.errors = <<>>
    /\ state.status = "under_review"
    /\ ~should_complete_workflow(state)
    /\ ~should_route_to_conflict_resolution(state)
    /\ ~should_route_to_legal_review(state)
    /\ is_consensus_reached(state)
    /\ _get_approved_changes(state) # {}
    /\ pc = "coordinator"

\* C29: the stage the orchestrator's routing functions choose after a stage
\* is the one get_next_node_from_state names for the state the stage left.
C29_RoutesFollowDecisionFunction ==
    [][pc' # pc /\ pc' \notin {"party_gather", "ABORTED"}
         => pc' = get_next_node_from_state(state')]_vars

\* After the first coordinator stage the orchestrator is about to run
\* party_notified, where the decision function names party_review.
C29_Scenario ==
    /\ last_node = "coordinator"
    /\ pc = "party_notified"
    /\ state.status = "parties_notified"
    /\ get_next_node_from_state(state) = "party_review"

(***************************************************************************)
(* Properties of stages run again                                          *)
(***************************************************************************)

\* t has the conflicts, the errors and the execution history of s.
SameLogs(s, t) ==
    /\ t.conflicts = s.conflicts
    /\ t.errors = s.errors
    /\ t.execution_history = s.execution_history

\* _party_review_node run on a state in which no party is pending.
party_review_nobody_pending(s) ==
    LET s1 == [s EXCEPT !.review_rounds = @ + 1]
    IN  IF round_limit_exceeded(s1) THEN party_review_fail(s1)
        ELSE party_review_update_status(s1)

\* C31: a stage run again on the state it has just left appends nothing to
\* conflicts, errors or execution_history: the coordinator whatever its
\* collaborators do, the conflict-resolution stage whatever the mediator
\* returns, the party-review stage when it left nobody pending.
C31_StagesIdempotent ==
    /\ last_node = "coordinator"
          => \A o \in CoordinatorOracle :
                SameLogs(state, CoordinatorNode_call(state, o))
    /\ last_node = "conflict_resolution" /\ pc # "ABORTED"
          => \A answer \in MediatorAnswers \ {"raises"} :
                SameLogs(state, _conflict_resolution_node(state, answer))
    /\ (last_node = "party_review" /\ pc # "party_gather"
          /\ get_pending_parties(state) = <<>>)
          => SameLogs(state, party_review_nobody_pending(state))

\* The coordinator has run on a workflow under review and has logged its
\* execution; run again it logs once more.
C31_Scenario ==
    /\ last_node = "coordinator"
    /\ state.status = "under_review"
    /\ state.errors = <<>>
    /\ state.execution_history # <<>>
    /\ state.execution_history[Len(state.execution_history)] = "coordinator"
    /\ \A o \in CoordinatorOracle :
          Len(CoordinatorNode_call(state, o).execution_history)
              = Len(state.execution_history) + 1

(***************************************************************************)
(* Properties of the conflict lifecycle                                    *)
(***************************************************************************)

\* The conflicts on record that are resolved and listed as resolved.
ResolvedOnRecord(s) ==
    {i \in DOMAIN s.conflicts :
        /\ s.conflicts[i].resolution_status = "resolved"
        /\ InSeq(s.conflicts[i].conflict_id, s.resolved_conflicts)}

\* C32: a conflict that is resolved and listed in resolved_conflicts is
\* never again unresolved and its id never again in active_conflicts,
\* whatever operation follows; resolving it once more changes nothing.
C32_ResolutionOneWay ==
    /\ [][\A i \in ResolvedOnRecord(state) :
            /\ ~InSeq(state.conflicts[i].conflict_id, state'.active_conflicts)
            /\ \A j \in DOMAIN state'.conflicts :
                  state'.conflicts[j].conflict_id = state.conflicts[i].conflict_id
                     => state'.conflicts[j].resolution_status = "resolved"]_vars
    /\ [](\A i \in ResolvedOnRecord(state) :
            resolve_conflict(state, state.conflicts[i].conflict_id) = state)

\* After a conflict was resolved a party-review round has run in which a
\* dispatched party rejected: its new conflict is active and the resolved
\* one is still resolved.
C32_Witness ==
    /\ last_node = "party_review"
    /\ dispatched # {}
    /\ inflight = {}
    /\ \E i \in ResolvedOnRecord(state), j \in DOMAIN state.conflicts :
          /\ state.conflicts[j].conflict_id > state.conflicts[i].conflict_id
          /\ Range(state.conflicts[j].affected_parties) \subseteq dispatched
          /\ InSeq(state.conflicts[j].conflict_id, state.active_conflicts)
          /\ ~InSeq(state.conflicts[i].conflict_id, state.active_conflicts)

\* The conflict manager by itself: detection, the whole node, mediation and
\* consensus building on the recorded responses, with no further party
\* review round.
NextConflictManager ==
    \/ ManagerDetect
    \/ ManagerCall
    \/ ManagerMediate
    \/ ManagerConsensus

SpecConflictManager == InitManager /\ [][NextConflictManager]_vars

\* The active conflicts whose resolution, under the answers of o, validation
\* rejects or nobody can parse.
Refused(s, o) ==
    {id \in Range(_identify_conflicts(s).active_conflicts) :
        o.answers[id] \in {"rejected", "unparsed"}}

\* C33: whatever the language model answers, a conflict whose mediated
\* resolution is rejected by validation or cannot be parsed is, after the
\* call of the conflict manager, still unresolved, still in active_conflicts
\* and not in resolved_conflicts; when every attempt of the call ends so,
\* no party response has changed.
C33_RefusedResolutionChangesNothing ==
    \A o \in ManagerOracle(state) :
        LET t == ConflictResolutionNode_call(state, o)
        IN  /\ \A id \in Refused(state, o) :
                  /\ InSeq(id, t.active_conflicts)
                  /\ ~InSeq(id, t.resolved_conflicts)
                  /\ conflict_index(t, id) # 0
                  /\ t.conflicts[conflict_index(t, id)].resolution_status
                        = "unresolved"
            /\ Refused(state, o) = Range(_identify_conflicts(state).active_conflicts)
                  => t.party_responses = state.party_responses

\* The conflict manager has run without an exception on a workflow with a
\* rejecting party and has resolved nothing: the conflict is active and
\* unresolved and the party's response is the rejection.
C33_Witness ==
    /\ last_node = "conflict_manager"
    /\ state.errors = <<>>
    /\ state.execution_history = <<"conflict_resolution">>
    /\ state.resolved_conflicts = <<>>
    /\ Len(state.conflicts) = 1
    /\ state.conflicts[1].resolution_status = "unresolved"
    /\ state.active_conflicts = <<state.conflicts[1].conflict_id>>
    /\ \A p \in Range(state.conflicts[1].affected_parties) :
          state.party_responses[p].status = "rejected"

\* The parties a detection pass owes a conflict: their response is rejected
\* or requested_changes and no unresolved conflict names them.
OwedConflict(s) ==
    {p \in DOMAIN s.party_responses :
        /\ s.party_responses[p].status \in {"rejected", "requested_changes"}
        /\ ~\E i \in DOMAIN s.conflicts :
               /\ s.conflicts[i].resolution_status = "unresolved"
               /\ InSeq(p, s.conflicts[i].affected_parties)}

\* C34: a detection pass appends exactly one conflict for every party whose
\* response is rejected or requested_changes and whom no unresolved conflict
\* names, also when resolved conflicts name the party, and none for anyone
\* else.
C34_DetectionCoversOwedParties ==
    [][last_node' \in {"identify", "identify_again"} =>
          LET new == SubSeq(state'.conflicts, Len(state.conflicts) + 1,
                            Len(state'.conflicts))
          IN  /\ Len(new) = Cardinality(OwedConflict(state))
              /\ {new[i].affected_parties : i \in DOMAIN new}
                    = {<<p>> : p \in OwedConflict(state)}]_vars

\* A detection pass has run on a workflow whose rejecting party is named
\* only by a resolved conflict, and has left it without a new conflict.
C34_Scenario ==
    /\ last_node \in {"identify", "identify_again"}
    /\ \E p \in OwedConflict(state) :
          /\ state.party_responses[p].status = "rejected"
          /\ \E i \in ResolvedOnRecord(state) :
                InSeq(p, state.conflicts[i].affected_parties)
    /\ state.active_conflicts = <<>>

\* The shape the detection paths give a conflict made from the response
\* of party_id: one affected party, type by status, severity by risk level.
SynthesizedFrom(conflict, party_id, response) ==
    /\ conflict.affected_parties = <<party_id>>
    /\ conflict.conflict_type =
          (IF response.status = "rejected"
           THEN "unacceptable_terms" ELSE "counter_proposal")
    /\ conflict.severity = severity_of(response.risk)

\* The affected clauses of the party's counter-proposal, else "general".
ClausesOfCounterProposal(response) ==
    IF response.proposed_changes = "mods"
    THEN "proposed_modifications" ELSE "general"

\* C35: every conflict that detection appends names one rejecting party
\* alone, has type unacceptable_terms for a rejection and
\* counter_proposal for a request for changes, the severity of the party's
\* risk level (medium when that is none of high, medium, low), the clauses
\* of the party's counter-proposal when the response carries one and
\* "general" otherwise, and has its id in active_conflicts.
C35_SynthesizedConflictShape ==
    [][\A i \in (Len(state.conflicts) + 1)..Len(state'.conflicts) :
          \E party_id \in DOMAIN state'.party_responses :
              LET conflict == state'.conflicts[i]
                  response == state'.party_responses[party_id]
              IN  /\ response.status \in {"rejected", "requested_changes"}
                  /\ SynthesizedFrom(conflict, party_id, response)
                  /\ conflict.affected_clauses = ClausesOfCounterProposal(response)
                  /\ InSeq(conflict.conflict_id, state'.active_conflicts)]_vars

\* A party has requested changes with a counter-proposal that names
\* clauses, and the conflict its evaluation added has the clauses "general".
C35_Scenario ==
    /\ pc = "party_gather"
    /\ \E i \in DOMAIN state.conflicts, party_id \in DOMAIN state.party_responses :
          /\ state.party_responses[party_id].status = "requested_changes"
          /\ state.party_responses[party_id].proposed_changes = "mods"
          /\ SynthesizedFrom(state.conflicts[i], party_id,
                             state.party_responses[party_id])
          /\ state.conflicts[i].affected_clauses = "general"
          /\ InSeq(state.conflicts[i].conflict_id, state.active_conflicts)

\* The run was initiated with parties and with proposed changes: parties
\* never changes and proposed_changes never becomes empty again.
NonEmptyInput(s) == Len(s.parties) > 0 /\ s.proposed_changes # "empty"

C37_ConsensusBuildingEffect ==
    [][pc = "consensus_building" =>
          IF state.node_outputs.consensus_proposal \notin {"none", "empty"}
          THEN /\ state'.proposed_changes = state.node_outputs.consensus_proposal
               /\ DOMAIN state'.party_responses = DOMAIN state.party_responses
               /\ \A p \in DOMAIN state.party_responses :
                      state'.party_responses[p].status = "pending"
               /\ state'.received_approvals = <<>>
               /\ state'.active_conflicts = <<>>
               /\ state'.status = "under_review"
          ELSE /\ state'.proposed_changes = state.proposed_changes
               /\ state'.party_responses = state.party_responses
               /\ state'.conflicts = state.conflicts
               /\ state'.active_conflicts = state.active_conflicts
               /\ Len(state'.errors) = Len(state.errors) + 1
               /\ SubSeq(state'.errors, 1, Len(state.errors)) = state.errors
               /\ state'.errors[Len(state'.errors)].node = "consensus_building"]_vars

\* Consensus building has applied a mediated proposal after a round in which
\* at least two parties had responded.
C37_Witness ==
    /\ last_node = "consensus_building"
    /\ pc = "party_review"
    /\ state.proposed_changes = "mediated"
    /\ state.status = "under_review"
    /\ Cardinality(DOMAIN state.party_responses) >= 2
    /\ \A p \in DOMAIN state.party_responses :
           state.party_responses[p].status = "pending"
    /\ state.received_approvals = <<>>
    /\ state.errors = <<>>

(***************************************************************************)
(* The workflow timeout.  workflow_config carries timeout_minutes and      *)
(* metrics carries start_time; the run is the orchestrator's run, and the  *)
(* wall clock passes the timeout at some moment while the party tasks of a *)
(* round are awaited.  No stage, task or routing function reads the clock  *)
(* or the key, so the actions of the run are the same on both sides of     *)
(* that moment.                                                            *)
(***************************************************************************)

\* The run has now lasted longer than workflow_config.timeout_minutes, and
\* party evaluations are in flight.
Timeout ==
    /\ ~elapsed
    /\ pc = "party_gather"
    /\ inflight # {}
    /\ elapsed' = TRUE
    /\ UNCHANGED <<state, pc, inflight, dispatched, failed_tasks,
                   agent_registry, resume_branch, last_node, updates>>

NextTimeout == Next \/ Timeout

SpecTimeout == InitDefaults /\ [][NextTimeout]_vars

\* An error whose message a timeout classifier (the recoverable patterns of
\* the conditions module) recognises.
TimeoutClassified(error) == "timeout" \in Mentions(error.error)

\* C38: once the run has lasted longer than timeout_minutes with party
\* evaluations in flight, the next step cancels every in-flight task
\* without a write to party_responses and sets the status failed with a
\* timeout-classified error.
C38_TimeoutCancelsPartyTasks ==
    [][(elapsed /\ pc = "party_gather" /\ inflight # {}) =>
          /\ inflight' = {}
          /\ state'.party_responses = state.party_responses
          /\ state'.status = "failed"
          /\ state'.errors # <<>>
          /\ TimeoutClassified(state'.errors[Len(state'.errors)])]_vars

\* The timeout passed in the first round with evaluations in flight, and
\* the round went on: every dispatched party has its approval recorded and
\* no error is on record.
C38_Scenario ==
    /\ elapsed
    /\ pc = "party_gather"
    /\ state.review_rounds = 1
    /\ inflight = {}
    /\ dispatched # {}
    /\ \A p \in dispatched :
          /\ p \in DOMAIN state.party_responses
          /\ state.party_responses[p].status = "approved"
    /\ state.errors = <<>>
    /\ state.status # "failed"

\* The parties whose current response has the status approved.
Approving(s) ==
    {p \in DOMAIN s.party_responses : s.party_responses[p].status = "approved"}

UpdateSets ==
    { {<<"legal_review_status", "approved">>},
      {<<"status", "under_review">>},
      {<<"legal_review_status", "approved">>, <<"status", "under_review">>} }

\* The setattr loop of resume_workflow on the object it is given.
apply_updates(s, us) ==
    [f \in DOMAIN s |->
        IF \E u \in us : u[1] = f
        THEN (CHOOSE u \in us : u[1] = f)[2]
        ELSE s[f]]

\* resume_workflow with updates on this workflow once its run is over:
\* current_state is rebuilt from the snapshot and the updates are set on
\* that local object; astream(None, config) then continues from the
\* checkpoint, which the call never writes to.
ResumeWithUpdates ==
    /\ RunOver
    /\ \E us \in UpdateSets :
          LET current_state == apply_updates(state, us)
          IN  /\ updates' = us
              /\ state' = state
    /\ resume_branch' = "resumed"
    /\ pc' = resume_next(pc, last_node)
    /\ UNCHANGED <<inflight, dispatched, failed_tasks, agent_registry,
                   last_node, elapsed>>

NextResumeUpdates == Next \/ ResumeWithUpdates

SpecResumeUpdates == InitDefaults /\ [][NextResumeUpdates]_vars

\* What get_workflow_status reports of a state.
get_workflow_status(s) ==
    [status |-> s.status,
     parties_status |-> [p \in DOMAIN s.party_responses |->
                            s.party_responses[p].status],
     conflicts |-> Len(s.active_conflicts)]

\* C40: after resume_workflow with updates on an existing workflow, every
\* field named in the updates has the supplied value in the state the
\* resumed execution runs on, and a supplied status is the status that
\* get_workflow_status reports.
C40_ResumeAppliesUpdates ==
    [][(RunOver /\ resume_branch' = "resumed" /\ updates' # {}) =>
          \A u \in updates' :
              /\ state'[u[1]] = u[2]
              /\ u[1] = "status" => get_workflow_status(state').status = u[2]]_vars

\* A workflow whose run had failed has been resumed with the updates
\* legal_review_status approved and status under_review, and the state of
\* the resumed execution still has legal review pending and status failed.
C40_Scenario ==
    /\ resume_branch = "resumed"
    /\ updates = {<<"legal_review_status", "approved">>, <<"status", "under_review">>}
    /\ state.legal_review_status = "pending"
    /\ state.status = "failed"
    /\ get_workflow_status(state).status = "failed"

====
